---- MODULE Spec2Model ----
(***************************************************************************)
(* The package descriptor images/rules-as-code/setup.py: one invocation    *)
(* reads README.md next to the descriptor, discovers the packages with     *)
(* find_packages() and hands one keyword record to setuptools' setup().    *)
(* The filesystem (README.md, the directory trees), the default text       *)
(* encoding and the working directory are the inputs.                      *)
(***************************************************************************)
EXTENDS Integers, Sequences, FiniteSets, TLC

Range(s) == {s[i] : i \in DOMAIN s}

(***************************************************************************)
(* The declared literals.  A requirement string is kept as the sequence of *)
(* its characters, so that what is handed on can be compared and parsed    *)
(* character by character.                                                 *)
(***************************************************************************)

\* setup.py line 22: "openfisca-core[web-api] >= 41.0.0, < 42.0.0"
openfisca_core ==
    <<"o","p","e","n","f","i","s","c","a","-","c","o","r","e","[","w","e","b","-","a","p","i","]"," ",">","="," ","4","1",".","0",".","0",","," ","<"," ","4","2",".","0",".","0">>

\* "openfisca-core[web-api]": the requirement without its version range
install_requires_unpinned == << SubSeq(openfisca_core, 1, 23) >>

\* setup.py lines 21-23: install_requires = [...]
install_requires == << openfisca_core >>

\* setup.py lines 25-42, one declared literal per line, in the declared order
dev ==
    <<
       \* "autopep8 >= 2.0.2, < 3.0"
       <<"a","u","t","o","p","e","p","8"," ",">","="," ","2",".","0",".","2",","," ","<"," ","3",".","0">>,
       \* "flake8 >= 6.0.0, < 7.0"
       <<"f","l","a","k","e","8"," ",">","="," ","6",".","0",".","0",","," ","<"," ","7",".","0">>,
       \* "flake8-bugbear >= 23.3.23, < 24.0"
       <<"f","l","a","k","e","8","-","b","u","g","b","e","a","r"," ",">","="," ","2","3",".","3",".","2","3",","," ","<"," ","2","4",".","0">>,
       \* "flake8-builtins >= 2.1.0, < 3.0"
       <<"f","l","a","k","e","8","-","b","u","i","l","t","i","n","s"," ",">","="," ","2",".","1",".","0",","," ","<"," ","3",".","0">>,
       \* "flake8-coding >= 1.3.2, < 2.0"
       <<"f","l","a","k","e","8","-","c","o","d","i","n","g"," ",">","="," ","1",".","3",".","2",","," ","<"," ","2",".","0">>,
       \* "flake8-commas >= 2.1.0, < 3.0"
       <<"f","l","a","k","e","8","-","c","o","m","m","a","s"," ",">","="," ","2",".","1",".","0",","," ","<"," ","3",".","0">>,
       \* "flake8-comprehensions >= 3.11.1, < 4.0"
       <<"f","l","a","k","e","8","-","c","o","m","p","r","e","h","e","n","s","i","o","n","s"," ",">","="," ","3",".","1","1",".","1",","," ","<"," ","4",".","0">>,
       \* "flake8-docstrings >= 1.7.0, < 2.0"
       <<"f","l","a","k","e","8","-","d","o","c","s","t","r","i","n","g","s"," ",">","="," ","1",".","7",".","0",","," ","<"," ","2",".","0">>,
       \* "flake8-import-order >= 0.18.2, < 0.19.0"
       <<"f","l","a","k","e","8","-","i","m","p","o","r","t","-","o","r","d","e","r"," ",">","="," ","0",".","1","8",".","2",","," ","<"," ","0",".","1","9",".","0">>,
       \* "flake8-print >= 5.0.0, < 6.0"
       <<"f","l","a","k","e","8","-","p","r","i","n","t"," ",">","="," ","5",".","0",".","0",","," ","<"," ","6",".","0">>,
       \* "flake8-quotes >= 3.3.2, < 4.0"
       <<"f","l","a","k","e","8","-","q","u","o","t","e","s"," ",">","="," ","3",".","3",".","2",","," ","<"," ","4",".","0">>,
       \* "flake8-simplify >= 0.19.3, < 0.20.0"
       <<"f","l","a","k","e","8","-","s","i","m","p","l","i","f","y"," ",">","="," ","0",".","1","9",".","3",","," ","<"," ","0",".","2","0",".","0">>,
       \* "flake8-use-fstring >= 1.4, < 2"
       <<"f","l","a","k","e","8","-","u","s","e","-","f","s","t","r","i","n","g"," ",">","="," ","1",".","4",","," ","<"," ","2">>,
       \* "importlib-metadata >= 6.1.0, < 7.0"
       <<"i","m","p","o","r","t","l","i","b","-","m","e","t","a","d","a","t","a"," ",">","="," ","6",".","1",".","0",","," ","<"," ","7",".","0">>,
       \* "pycodestyle >= 2.10.0, < 3.0"
       <<"p","y","c","o","d","e","s","t","y","l","e"," ",">","="," ","2",".","1","0",".","0",","," ","<"," ","3",".","0">>,
       \* "pylint >= 2.17.1, < 3.0"
       <<"p","y","l","i","n","t"," ",">","="," ","2",".","1","7",".","1",","," ","<"," ","3",".","0">>
    >>

dev_swapped == [dev EXCEPT ![1] = dev[16], ![16] = dev[1]]

install_requires_extra == install_requires \o <<dev[1]>>

\* "pylint >= 3.0, < 2.17.1": the two versions of the last entry exchanged
dev_empty_range ==
    [dev EXCEPT ![16] = <<"p","y","l","i","n","t"," ",">","="," ","3",".","0",","," ","<"," ","2",".","1","7",".","1">>]

extras_require_swapped == [dev |-> dev_swapped]

extras_require_empty_range == [dev |-> dev_empty_range]

\* setup.py lines 24-43: extras_require = {"dev": [...]}
extras_require == [dev |-> dev]

(***************************************************************************)
(* The environment.                                                        *)
(***************************************************************************)

\* Path(__file__).parent: the directory that holds setup.py and README.md
this_directory == "proj"

\* The directories an invoking process may have as its working directory
Roots == {this_directory, "elsewhere"}

\* The default text encodings read_text() may decode with (encoding=None)
Encodings == {"utf-8", "latin-1"}

\* The bytes README.md is made of: LF, CR, "H", and 0xC3 0xA9 (UTF-8 for e-acute)
ReadmeBytes == {10, 13, 72, 169, 195}

\* Longest README.md content explored, in bytes
MaxLen == 2

RECURSIVE SeqsUpTo(_, _)
SeqsUpTo(S, n) ==
    IF n = 0 THEN {<<>>}
    ELSE LET shorter == SeqsUpTo(S, n - 1)
         IN  shorter \cup {Append(s, b) : s \in {t \in shorter : Len(t) = n - 1}, b \in S}

ReadmeContents == SeqsUpTo(ReadmeBytes, MaxLen)

\* "H", "H\r\n", e-acute in UTF-8, and a lone continuation byte
ReadmeSamples == {<<72>>, <<72, 13, 10>>, <<195, 169>>, <<169>>}

\* The directories that may exist under a root, as paths relative to it
DirUniverse == {<<"pkg">>, <<"pkg", "sub">>}

Parent(d) == SubSeq(d, 1, Len(d) - 1)

\* A directory tree: the directories that exist, those holding an __init__.py,
\* and those whose listing is denied (no read permission)
Trees ==
    {t \in [dirs : SUBSET DirUniverse, inits : SUBSET DirUniverse, locked : SUBSET DirUniverse] :
        /\ \A d \in t.dirs : Len(d) > 1 => Parent(d) \in t.dirs
        /\ t.inits \subseteq t.dirs
        /\ t.locked \subseteq {d \in t.dirs : \E c \in DirUniverse : Len(c) > 1 /\ Parent(c) = d}}

FlatTrees == {t \in Trees : t.locked = {} /\ \A d \in t.dirs : Len(d) = 1}

(***************************************************************************)
(* Path.read_text(): open in text mode, decode, translate newlines, close. *)
(***************************************************************************)

RECURSIVE utf_8_decode(_)
utf_8_decode(bs) ==
    IF bs = <<>> THEN [ok |-> TRUE, text |-> <<>>]
    ELSE LET b == Head(bs) IN
         IF b < 128
         THEN LET rest == utf_8_decode(Tail(bs))
              IN  [ok |-> rest.ok, text |-> <<b>> \o rest.text]
         ELSE IF b \in 194..223 /\ Len(bs) >= 2 /\ bs[2] \in 128..191
         THEN LET rest == utf_8_decode(Tail(Tail(bs)))
              IN  [ok |-> rest.ok, text |-> <<(b - 192) * 64 + (bs[2] - 128)>> \o rest.text]
         ELSE [ok |-> FALSE, text |-> <<>>]

\* Every byte is the code point of the same number
latin_1_decode(bs) == [ok |-> TRUE, text |-> bs]

decode(bs, enc) == IF enc = "utf-8" THEN utf_8_decode(bs) ELSE latin_1_decode(bs)

RECURSIVE translate_newlines_dropping(_)
translate_newlines_dropping(text) ==
    IF text = <<>> THEN <<>>
    ELSE IF Head(text) \in {10, 13} THEN translate_newlines_dropping(Tail(text))
    ELSE <<Head(text)>> \o translate_newlines_dropping(Tail(text))

\* Text mode with newline=None: "\r\n" and a lone "\r" are both read as "\n"
RECURSIVE translate_newlines(_)
translate_newlines(text) ==
    IF text = <<>> THEN <<>>
    ELSE IF Head(text) = 13
    THEN IF Len(text) >= 2 /\ text[2] = 10
         THEN <<10>> \o translate_newlines(Tail(Tail(text)))
         ELSE <<10>> \o translate_newlines(Tail(text))
    ELSE <<Head(text)>> \o translate_newlines(Tail(text))

(***************************************************************************)
(* find_packages(): where=".", every package, nothing excluded.            *)
(***************************************************************************)

RECURSIVE SetToSeq(_)
SetToSeq(S) == IF S = {} THEN <<>> ELSE LET x == CHOOSE y \in S : TRUE IN <<x>> \o SetToSeq(S \ {x})

\* os.scandir(top): the sub-directories of top, in the directory's own order
listing(t, top) == SetToSeq({d \in t.dirs : Len(d) = Len(top) + 1 /\ Parent(d) = top})

\* os.path.isfile(os.path.join(path, "__init__.py"))
looks_like_package(t, d) == d \in t.inits

RECURSIVE JoinDots(_)
JoinDots(d) == IF Len(d) = 1 THEN d[1] ELSE d[1] \o "." \o JoinDots(Tail(d))

\* rel_path.replace(os.path.sep, ".")
package(d) == JoinDots(d)

RECURSIVE Flatten(_)
Flatten(ss) == IF ss = <<>> THEN <<>> ELSE Head(ss) \o Flatten(Tail(ss))

\* os.walk(where, followlinks=True) filtered by PackageFinder._find_iter: a
\* directory whose listing fails is skipped (os.walk ignores the error), a
\* directory that is no package is not descended into
RECURSIVE find_iter(_, _)
find_iter(t, top) ==
    IF top \in t.locked THEN <<>>
    ELSE LET all_dirs == listing(t, top)
             kept == SelectSeq(all_dirs, LAMBDA d : looks_like_package(t, d))
         IN  [i \in 1..Len(kept) |-> package(kept[i])]
             \o Flatten([i \in 1..Len(kept) |-> find_iter(t, kept[i])])

find_packages(t) == find_iter(t, <<>>)

\* The directories os.walk lists on the way: the root and every package below
\* it whose ancestors are all listable packages
RECURSIVE walked(_, _)
walked(t, top) ==
    {top} \cup
    IF top \in t.locked THEN {}
    ELSE UNION {walked(t, d) : d \in {c \in t.dirs : Len(c) = Len(top) + 1 /\ Parent(c) = top /\ looks_like_package(t, c)}}

\* Whether a listing met on the walk is denied (the error os.walk swallows)
scandir_denied(t) == walked(t, <<>>) \cap t.locked # {}

\* Exceptions find_packages() can raise out of the walk
DiscoveryErrors == {"RecursionError", "MemoryError"}

(***************************************************************************)
(* The state.                                                              *)
(***************************************************************************)

VARIABLES
    readmeStatus,       \* "absent", "denied" or "file": README.md next to setup.py
    readmeBytes,        \* its content, a sequence of bytes
    tree,               \* the directory tree under each root
    encoding,           \* the default text encoding of the invoking process
    cwd,                \* the working directory of the invoking process
    pc,                 \* where the invocation stands
    handleOpen,         \* whether the file object opened on README.md is open
    pending,            \* the exception f.read() raised inside the with block, or "none"
    long_description,   \* the module variable, a sequence of code points
    packages,           \* the value of find_packages(), the packages keyword
    scanDenied,         \* whether the walk of this invocation met a denied listing
    raised,             \* the exception the failing call raised, or "none"
    error,              \* the exception that ended the invocation, or "none"
    handed,             \* the keyword records setup() received in this invocation
    reads,              \* how often this invocation opened README.md
    finds,              \* how often this invocation called find_packages()
    setups,             \* how often this invocation called setup()
    prev,               \* the keyword records of the last invocation that registered
    fsChanged           \* whether the filesystem changed since prev was handed over

fs == <<readmeStatus, readmeBytes, tree>>
env == <<encoding, cwd>>
locals == <<pc, handleOpen, pending, long_description, packages, scanDenied, raised, error,
            handed, reads, finds, setups>>
history == <<prev, fsChanged>>
vars == <<fs, env, locals, history>>

Terminal == {"registered", "failed"}

\* A fresh interpreter: nothing bound, nothing open, nothing called
Fresh ==
    /\ pc = "start"
    /\ handleOpen = FALSE
    /\ pending = "none"
    /\ long_description = <<>>
    /\ packages = <<>>
    /\ scanDenied = FALSE
    /\ raised = "none"
    /\ error = "none"
    /\ handed = <<>>
    /\ reads = 0
    /\ finds = 0
    /\ setups = 0

Init ==
    /\ readmeStatus \in {"absent", "denied", "file"}
    /\ readmeBytes \in (IF readmeStatus = "file" THEN ReadmeSamples ELSE {<<>>})
    /\ tree \in {t \in [Roots -> Trees] : \A r \in Roots \ {this_directory} : t[r] \in FlatTrees}
    /\ encoding \in Encodings
    /\ cwd \in Roots
    /\ Fresh
    /\ prev = <<>>
    /\ fsChanged = FALSE

\* Every README.md content up to MaxLen bytes, over one package tree
InitReadme ==
    /\ readmeStatus \in {"absent", "denied", "file"}
    /\ readmeBytes \in (IF readmeStatus = "file" THEN ReadmeContents ELSE {<<>>})
    /\ tree \in {t \in [Roots -> FlatTrees] : \A r \in Roots : t[r].dirs = {<<"pkg">>}}
    /\ encoding \in Encodings
    /\ cwd \in Roots
    /\ Fresh
    /\ prev = <<>>
    /\ fsChanged = FALSE

(***************************************************************************)
(* The invocation, statement by statement.                                 *)
(***************************************************************************)

\* No try/except anywhere in the file: the exception leaves as it was raised
Propagate_wrapped(e) == "SystemExit"

Propagate(e) == e

\* Line 9, Path.open(): a missing file falls through to the next statements
OpenReadme_fallback ==
    /\ pc = "start"
    /\ reads' = reads + 1
    /\ IF readmeStatus = "file"
       THEN /\ handleOpen' = TRUE
            /\ pc' = "opened"
            /\ UNCHANGED <<raised, error>>
       ELSE /\ pc' = "read"
            /\ UNCHANGED <<handleOpen, raised, error>>
    /\ UNCHANGED <<fs, env, history, pending, long_description, packages, scanDenied,
                   handed, finds, setups>>

\* Line 9, (this_directory / "README.md").read_text(): Path.open()
OpenReadme ==
    /\ pc = "start"
    /\ reads' = reads + 1
    /\ IF readmeStatus = "file"
       THEN /\ handleOpen' = TRUE
            /\ pc' = "opened"
            /\ UNCHANGED <<raised, error>>
       ELSE /\ raised' = (IF readmeStatus = "absent" THEN "FileNotFoundError" ELSE "PermissionError")
            /\ error' = Propagate(raised')
            /\ pc' = "failed"
            /\ UNCHANGED handleOpen
    /\ UNCHANGED <<fs, env, history, pending, long_description, packages, scanDenied,
                   handed, finds, setups>>

\* Line 9, read_text(): f.read() inside the with block
ReadText ==
    /\ pc = "opened"
    /\ LET d == decode(readmeBytes, encoding) IN
       IF d.ok
       THEN /\ long_description' = translate_newlines(d.text)
            /\ pending' = "none"
       ELSE /\ pending' = "UnicodeDecodeError"
            /\ UNCHANGED long_description
    /\ pc' = "with_exit"
    /\ UNCHANGED <<fs, env, history, handleOpen, packages, scanDenied, raised, error,
                   handed, reads, finds, setups>>

\* The file object is closed only when f.read() returned
WithExit_leaky ==
    /\ pc = "with_exit"
    /\ IF pending = "none"
       THEN /\ handleOpen' = FALSE
            /\ pc' = "read"
            /\ UNCHANGED <<raised, error>>
       ELSE /\ raised' = pending
            /\ error' = Propagate(pending)
            /\ pc' = "failed"
            /\ UNCHANGED handleOpen
    /\ pending' = "none"
    /\ UNCHANGED <<fs, env, history, long_description, packages, scanDenied, handed,
                   reads, finds, setups>>

\* Line 9, read_text(): leaving the with block closes the file object, then the
\* text is returned and bound, or the pending exception goes on
WithExit ==
    /\ pc = "with_exit"
    /\ handleOpen' = FALSE
    /\ IF pending = "none"
       THEN /\ pc' = "read"
            /\ UNCHANGED <<raised, error>>
       ELSE /\ raised' = pending
            /\ error' = Propagate(pending)
            /\ pc' = "failed"
    /\ pending' = "none"
    /\ UNCHANGED <<fs, env, history, long_description, packages, scanDenied, handed,
                   reads, finds, setups>>

\* find_packages() is called again after it raised
FindPackages_retry ==
    /\ pc = "read"
    /\ finds' = finds + 1
    /\ finds < 3
    /\ \/ /\ packages' = find_packages(tree[cwd])
          /\ scanDenied' = scandir_denied(tree[cwd])
          /\ pc' = "found"
       \/ /\ pc' = "read"
          /\ UNCHANGED <<packages, scanDenied>>
    /\ UNCHANGED <<fs, env, history, handleOpen, pending, long_description, handed,
                   reads, setups, raised, error>>

\* Line 44, packages = find_packages(): the last keyword argument, evaluated
\* before setup() is entered; where="." is the working directory
FindPackages ==
    /\ pc = "read"
    /\ finds' = finds + 1
    /\ \/ /\ packages' = find_packages(tree[cwd])
          /\ scanDenied' = scandir_denied(tree[cwd])
          /\ pc' = "found"
          /\ UNCHANGED <<raised, error>>
       \/ \E e \in DiscoveryErrors :
            /\ raised' = e
            /\ error' = Propagate(e)
            /\ pc' = "failed"
            /\ UNCHANGED <<packages, scanDenied>>
    /\ UNCHANGED <<fs, env, history, handleOpen, pending, long_description, handed,
                   reads, setups>>

\* Lines 11-45: the keywords of the setup() call
Kwargs(ld, pk) ==
    [name |-> "Openfisca-Rules",
     version |-> "0.0.1",
     author |-> "Salsa Digital",
     author_email |-> "info@salsa.digital",
     description |-> "The rules as code entrypoint.",
     long_description |-> ld,
     long_description_content_type |-> "text/markdown",
     keywords |-> "",
     url |-> "",
     install_requires |-> install_requires,
     extras_require |-> extras_require,
     packages |-> pk]

\* setup() also leaves an __init__.py in every directory under the working directory
Setup_touching ==
    /\ pc = "found"
    /\ setups' = setups + 1
    /\ handed' = Append(handed, Kwargs(long_description, packages))
    /\ pc' = "registered"
    /\ tree' = [tree EXCEPT ![cwd].inits = tree[cwd].dirs]
    /\ UNCHANGED <<readmeStatus, readmeBytes, env, history, handleOpen, pending,
                   long_description, packages, scanDenied, raised, error, reads, finds>>

\* Lines 11-45, setup(...): the record is handed to the packaging tool
Setup ==
    /\ pc = "found"
    /\ setups' = setups + 1
    /\ handed' = Append(handed, Kwargs(long_description, packages))
    /\ pc' = "registered"
    /\ UNCHANGED <<fs, env, history, handleOpen, pending, long_description, packages,
                   scanDenied, raised, error, reads, finds>>

\* One statement of the descriptor
Step == OpenReadme \/ ReadText \/ WithExit \/ FindPackages \/ Setup

(***************************************************************************)
(* Between invocations.                                                    *)
(***************************************************************************)

\* The packaging tool runs the descriptor again, in a fresh interpreter with
\* the same working directory and encoding
Reinvoke ==
    /\ pc \in Terminal
    /\ pc' = "start"
    /\ handleOpen' = FALSE
    /\ pending' = "none"
    /\ long_description' = <<>>
    /\ packages' = <<>>
    /\ scanDenied' = FALSE
    /\ raised' = "none"
    /\ error' = "none"
    /\ handed' = <<>>
    /\ reads' = 0
    /\ finds' = 0
    /\ setups' = 0
    /\ IF pc = "registered"
       THEN prev' = handed /\ fsChanged' = FALSE
       ELSE UNCHANGED history
    /\ UNCHANGED <<fs, env>>

\* Somebody changes README.md or a directory tree before the descriptor's first
\* statement runs
FsChange ==
    /\ pc = "start"
    /\ fsChanged' = TRUE
    /\ \/ /\ readmeStatus = "file"
          /\ readmeStatus' = "absent"
          /\ readmeBytes' = <<>>
          /\ UNCHANGED tree
       \/ /\ \E bs \in ReadmeSamples \ {readmeBytes} :
                readmeBytes' = bs
          /\ readmeStatus' = "file"
          /\ UNCHANGED tree
       \/ /\ \E r \in Roots : \E d \in tree[r].dirs \ tree[r].inits :
                tree' = [tree EXCEPT ![r].inits = @ \cup {d}]
          /\ UNCHANGED <<readmeStatus, readmeBytes>>
       \/ /\ \E r \in Roots : \E d \in tree[r].inits :
                tree' = [tree EXCEPT ![r].inits = @ \ {d}]
          /\ UNCHANGED <<readmeStatus, readmeBytes>>
       \/ /\ \E r \in Roots : \E d \in tree[r].locked :
                tree' = [tree EXCEPT ![r].locked = @ \ {d}]
          /\ UNCHANGED <<readmeStatus, readmeBytes>>
       \/ /\ \E r \in Roots : \E t \in Trees :
                /\ t.dirs = tree[r].dirs /\ t.inits = tree[r].inits
                /\ Cardinality(t.locked) = Cardinality(tree[r].locked) + 1
                /\ tree[r].locked \subseteq t.locked
                /\ tree' = [tree EXCEPT ![r] = t]
          /\ UNCHANGED <<readmeStatus, readmeBytes>>
    /\ UNCHANGED <<env, locals, prev>>

Next == Step \/ Reinvoke \/ FsChange

Spec == Init /\ [][Next]_vars

\* One invocation over every README.md content; the interpreter runs the
\* statements of the file to the end
SpecReadme == InitReadme /\ [][Step]_vars /\ WF_vars(Step)

(***************************************************************************)
(* Vocabulary of the properties: strings, UTF-8 encoding, and the reading  *)
(* of a requirement "name >= L, < U" with versions compared as releases.    *)
(***************************************************************************)

RECURSIVE Join(_)
Join(cs) == IF cs = <<>> THEN "" ELSE Head(cs) \o Join(Tail(cs))

RECURSIVE Utf8Encode(_)
Utf8Encode(text) ==
    IF text = <<>> THEN <<>>
    ELSE LET cp == Head(text) IN
         (IF cp < 128 THEN <<cp>> ELSE <<192 + (cp \div 64), 128 + (cp % 64)>>)
         \o Utf8Encode(Tail(text))

RECURSIVE SplitBy(_, _)
SplitBy(s, c) ==
    IF \A i \in DOMAIN s : s[i] # c THEN <<s>>
    ELSE LET k == CHOOSE i \in DOMAIN s : s[i] = c /\ \A j \in 1..(i - 1) : s[j] # c
         IN  <<SubSeq(s, 1, k - 1)>> \o SplitBy(SubSeq(s, k + 1, Len(s)), c)

Words(s) == SelectSeq(SplitBy(s, " "), LAMBDA w : w # <<>>)

DigitChars == <<"0", "1", "2", "3", "4", "5", "6", "7", "8", "9">>

IsNumber(w) == w # <<>> /\ \A i \in DOMAIN w : w[i] \in Range(DigitChars)

RECURSIVE Number(_)
Number(w) ==
    IF w = <<>> THEN 0
    ELSE Number(SubSeq(w, 1, Len(w) - 1)) * 10
         + (CHOOSE n \in 0..9 : DigitChars[n + 1] = w[Len(w)])

IsVersion(w) == \A p \in Range(SplitBy(w, ".")) : IsNumber(p)

Version(w) == LET ps == SplitBy(w, ".") IN [i \in 1..Len(ps) |-> Number(ps[i])]

Part(v, i) == IF i \in DOMAIN v THEN v[i] ELSE 0

\* Release order: component by component, a missing component counting as 0
VersionLess(a, b) ==
    \E i \in 1..(Len(a) + Len(b)) :
        /\ Part(a, i) < Part(b, i)
        /\ \A j \in 1..(i - 1) : Part(a, j) = Part(b, j)

\* The version clauses of a requirement: the words after its name, clause by clause
Clauses(req) ==
    LET cs == SplitBy(req, ",")
        first == Words(cs[1])
    IN  <<SubSeq(first, 2, Len(first))>> \o [i \in 1..(Len(cs) - 1) |-> Words(cs[i + 1])]

HalfOpenRange(req) ==
    LET cl == Clauses(req) IN
    /\ Len(cl) = 2
    /\ Len(cl[1]) = 2 /\ cl[1][1] = <<">", "=">> /\ IsVersion(cl[1][2])
    /\ Len(cl[2]) = 2 /\ cl[2][1] = <<"<">> /\ IsVersion(cl[2][2])
    /\ VersionLess(Version(cl[1][2]), Version(cl[2][2]))

Rank(p) ==
    CASE p = "start" -> 5
      [] p = "opened" -> 4
      [] p = "with_exit" -> 3
      [] p = "read" -> 2
      [] p = "found" -> 1
      [] OTHER -> 0

(***************************************************************************)
(* The properties.                                                         *)
(***************************************************************************)

\* C1, as stated: for every content of README.md, the long_description handed
\* to setup() is that content byte for byte.
C1_ByteForByte ==
    pc = "registered" => Utf8Encode(handed[1].long_description) = readmeBytes

\* C1, amended: a content without a carriage return, decoded as UTF-8 (or made
\* of ASCII bytes only), is handed to setup() byte for byte; a content with
\* carriage returns is handed over without any (CR LF and lone CR read as LF).
C1_ByteForByteWithoutCR ==
    pc = "registered" =>
        LET ld == handed[1].long_description IN
        /\ 13 \notin Range(ld)
        /\ Len(ld) <= Len(readmeBytes)
        /\ (/\ 13 \notin Range(readmeBytes)
            /\ (encoding = "utf-8" \/ \A i \in DOMAIN readmeBytes : readmeBytes[i] < 128))
           => Utf8Encode(ld) = readmeBytes

C1_Witness ==
    /\ pc = "registered"
    /\ encoding = "utf-8"
    /\ readmeBytes = <<195, 169>>
    /\ handed[1].long_description = <<233>>

\* C2: an invocation that finds no README.md ends failed with FileNotFoundError,
\* and a failed invocation has never called setup() nor handed over a record.
C2_MissingReadmeIsFatal ==
    /\ [][(pc = "start" /\ readmeStatus = "absent" /\ pc' # "start")
            => (pc' = "failed" /\ error' = "FileNotFoundError" /\ setups' = 0 /\ handed' = <<>>)]_vars
    /\ [](pc = "failed" => (setups = 0 /\ handed = <<>> /\ ~ENABLED Step))

C2_Witness ==
    /\ pc = "failed"
    /\ readmeStatus = "absent"
    /\ error = "FileNotFoundError"
    /\ reads = 1

\* C3: the record handed to setup() has exactly one install_requires entry, the
\* literal "openfisca-core[web-api] >= 41.0.0, < 42.0.0".
C3_InstallRequires ==
    pc = "registered" =>
        /\ Len(handed[1].install_requires) = 1
        /\ Join(handed[1].install_requires[1]) = "openfisca-core[web-api] >= 41.0.0, < 42.0.0"

C3_Witness ==
    /\ pc = "registered"
    /\ Len(handed[1].install_requires) = 1
    /\ handed[1].long_description # <<>>
    /\ handed[1].packages # <<>>

\* C4: the record handed to setup() has the single extras key "dev", whose value
\* is the 16 declared literals in the declared order.
C4_ExtrasRequire ==
    pc = "registered" =>
        /\ DOMAIN handed[1].extras_require = {"dev"}
        /\ [i \in DOMAIN handed[1].extras_require.dev |-> Join(handed[1].extras_require.dev[i])]
           = <<
           "autopep8 >= 2.0.2, < 3.0",
           "flake8 >= 6.0.0, < 7.0",
           "flake8-bugbear >= 23.3.23, < 24.0",
           "flake8-builtins >= 2.1.0, < 3.0",
           "flake8-coding >= 1.3.2, < 2.0",
           "flake8-commas >= 2.1.0, < 3.0",
           "flake8-comprehensions >= 3.11.1, < 4.0",
           "flake8-docstrings >= 1.7.0, < 2.0",
           "flake8-import-order >= 0.18.2, < 0.19.0",
           "flake8-print >= 5.0.0, < 6.0",
           "flake8-quotes >= 3.3.2, < 4.0",
           "flake8-simplify >= 0.19.3, < 0.20.0",
           "flake8-use-fstring >= 1.4, < 2",
           "importlib-metadata >= 6.1.0, < 7.0",
           "pycodestyle >= 2.10.0, < 3.0",
           "pylint >= 2.17.1, < 3.0"
             >>

C4_Witness ==
    /\ pc = "registered"
    /\ Len(handed[1].extras_require.dev) = 16
    /\ Join(handed[1].extras_require.dev[16]) = "pylint >= 2.17.1, < 3.0"
    /\ cwd # this_directory

\* C5: an invocation that registers with no filesystem change since the last
\* registration hands setup() a record equal to the last one, field for field.
C5_Idempotent ==
    (pc = "registered" /\ prev # <<>> /\ ~fsChanged) => handed = prev

C5_Witness ==
    /\ pc = "registered"
    /\ prev # <<>>
    /\ ~fsChanged
    /\ handed = prev
    /\ handed[1].packages = <<"pkg", "pkg.sub">>

\* C6, as stated: whatever the working directory, the packages discovered are
\* those of the tree under the descriptor's own directory.
C6_RootedAtDescriptor ==
    pc = "registered" => Range(handed[1].packages) = Range(find_packages(tree[this_directory]))

\* C7: once read_text() is left, with the text or with an exception, the file
\* object on README.md is closed; setup() never runs while it is open.
C7_HandleReleased ==
    /\ pc \in {"read", "found", "registered", "failed"} => ~handleOpen
    /\ setups > 0 => ~handleOpen

C7_Witness ==
    /\ pc = "failed"
    /\ error = "UnicodeDecodeError"
    /\ ~handleOpen

\* C8, as stated: a filesystem error met during the walk ends the invocation
\* with that error, and setup() is not called.
C8_WalkErrorIsFatal ==
    (scanDenied /\ pc \in Terminal) => (pc = "failed" /\ error # "none" /\ setups = 0)

\* C8, amended: when find_packages() raises, the exception ends the invocation
\* unchanged, README.md was read once, discovery ran once and setup() is never
\* called; a denied listing met on the walk does not raise: the directory is
\* skipped and setup() receives the packages found elsewhere.
C8_RaisedErrorIsFatal ==
    /\ reads <= 1 /\ finds <= 1
    /\ (pc = "failed" /\ finds = 1) =>
           /\ raised \in DiscoveryErrors
           /\ error = raised
           /\ reads = 1
           /\ setups = 0
           /\ handed = <<>>
           /\ ~ENABLED Step
    /\ scanDenied => (error = "none" /\ pc \in {"found", "registered"})
    /\ (scanDenied /\ pc = "registered") => handed[1].packages = packages

C8_Witness ==
    /\ pc = "failed"
    /\ finds = 1
    /\ raised = "RecursionError"
    /\ long_description # <<>>

\* C9: every requirement handed to setup(), the runtime one and the 16 of "dev",
\* reads ">= L, < U" with L below U in release order.
C9_HalfOpenRanges ==
    pc = "registered" =>
        \A req \in Range(handed[1].install_requires) \cup Range(handed[1].extras_require.dev) :
            HalfOpenRange(req)

C9_Witness ==
    /\ pc = "registered"
    /\ Cardinality(Range(handed[1].install_requires) \cup Range(handed[1].extras_require.dev)) = 17
    /\ HalfOpenRange(handed[1].extras_require.dev[13])

\* C10: an invocation reads README.md, then discovers, then registers, each at
\* most once and in that order; setup() is called once when it registers and
\* never when it fails; every statement moves it on, and it ends registered or
\* failed.
C10_Pass ==
    /\ reads <= 1 /\ finds <= reads /\ setups <= finds
    /\ finds > 0 => (~handleOpen /\ pc \in {"found", "registered", "failed"})
    /\ pc = "registered" => (reads = 1 /\ finds = 1 /\ setups = 1 /\ Len(handed) = 1 /\ error = "none")
    /\ pc = "failed" => (setups = 0 /\ handed = <<>> /\ error # "none")
    /\ pc \notin Terminal => (setups = 0 /\ handed = <<>> /\ ENABLED Step)

C10_LinearPass ==
    /\ []C10_Pass
    /\ [][Rank(pc') < Rank(pc)]_vars
    /\ <>(pc \in Terminal)
    /\ [](pc = "found" => <>(pc = "registered"))

C10_Witness ==
    /\ pc = "registered"
    /\ reads = 1 /\ finds = 1 /\ setups = 1
    /\ handed[1].packages = <<"pkg">>

====
